---- MODULE Spec2Model ----
(***************************************************************************)
(* A model of compile_commands_generator/cli.py.                           *)
(*                                                                         *)
(* Python strings are sequences of one-character strings, so that          *)
(* str.startswith, " ".join, str.split, Path.suffix and fnmatch are        *)
(* computed on the characters as the library computes them.  Python lists  *)
(* and tuples are sequences.  The filesystem is the part of it the program *)
(* reads and writes: the kind of a few absolute paths, the regular files   *)
(* under each directory, the compile_commands.json of each directory and   *)
(* the history file.                                                       *)
(***************************************************************************)
EXTENDS Integers, Sequences, FiniteSets, TLC

VARIABLES
    kind,              \* absolute path -> "absent" | "file" | "dir"
    tree,              \* absolute path of a directory -> relative paths of the regular files under it
    ccjson,            \* absolute path of a directory -> its compile_commands.json
    history,           \* HISTORY_FILE: [exists, items], items in dict order
    env,               \* what the toolchain probes of this machine answer
    pc,                \* position of the process in main()/generate()
    argv,              \* sys.argv of the running process
    args,              \* the argparse Namespace
    cpp_args,          \* generate(): cpp_args
    cuda_args,         \* generate(): cuda_args
    cuda_inherit_cpp,  \* generate(): cuda_inherit_cpp
    entry_count,       \* generate(): entry_count
    exit_status,       \* exit status of the process, -1 while it runs
    passes,            \* the calls of try_generate made since the program was started, in order
    parent,            \* the process waiting in subprocess.call for this one, if any
    call,              \* the arguments of the function applied (function-level specifications)
    ret                \* what that function returned

vars == <<kind, tree, ccjson, history, env, pc, argv, args, cpp_args, cuda_args,
          cuda_inherit_cpp, entry_count, exit_status, passes, parent, call, ret>>

fsVars == <<kind, tree, ccjson, history>>
procVars == <<env, pc, argv, args, cpp_args, cuda_args, cuda_inherit_cpp,
              entry_count, exit_status, passes, parent>>

(***************************************************************************)
(* Bounds of the model.                                                    *)
(***************************************************************************)
MaxFiles == 2      \* regular files under the project root
MaxIgnore == 1     \* ignore patterns of one call
MaxArgs == 2       \* length of an argument list given to share_includes
MaxOps == 3        \* history operations in a row

(***************************************************************************)
(* Strings.                                                                *)
(***************************************************************************)
None == <<"None">>                \* Python's None: no string has a 4-character element

StartsWith(s, p) == Len(s) >= Len(p) /\ SubSeq(s, 1, Len(p)) = p

EndsWith(s, p) == Len(s) >= Len(p) /\ SubSeq(s, Len(s) - Len(p) + 1, Len(s)) = p

\* x in t, for a list or tuple t
In(x, t) == \E k \in 1..Len(t) : t[k] = x

\* the number of elements of t equal to x
Count(x, t) == Cardinality({k \in 1..Len(t) : t[k] = x})

\* sep.join(list)
RECURSIVE Join(_, _)
Join(list, sep) ==
    IF list = <<>> THEN <<>>
    ELSE IF Len(list) = 1 THEN list[1]
    ELSE list[1] \o sep \o Join(Tail(list), sep)

\* s.rfind(c), counted from 1; 0 when c is not in s
RFind(s, c) ==
    LET hits == {i \in 1..Len(s) : s[i] = c}
    IN  IF hits = {} THEN 0 ELSE CHOOSE i \in hits : \A j \in hits : j <= i

\* s.find(c), counted from 1; 0 when c is not in s
Find(s, c) ==
    LET hits == {i \in 1..Len(s) : s[i] = c}
    IN  IF hits = {} THEN 0 ELSE CHOOSE i \in hits : \A j \in hits : i <= j

\* s.split(c): the pieces between the occurrences of the character c, empty ones kept
RECURSIVE SplitOn(_, _)
SplitOn(s, c) ==
    LET i == Find(s, c)
    IN  IF i = 0 THEN <<s>>
        ELSE <<SubSeq(s, 1, i - 1)>> \o SplitOn(SubSeq(s, i + 1, Len(s)), c)

\* s.strip(), the only whitespace being the blank
RECURSIVE Strip(_)
Strip(s) ==
    IF s = <<>> THEN s
    ELSE IF Head(s) = " " THEN Strip(Tail(s))
    ELSE IF s[Len(s)] = " " THEN Strip(SubSeq(s, 1, Len(s) - 1))
    ELSE s

\* s.split(): the maximal runs of non-blank characters
SplitBlank(s) == SelectSeq(SplitOn(s, " "), LAMBDA t : t # <<>>)

(***************************************************************************)
(* Paths.  The working directory of every process is CWD and there are no  *)
(* symbolic links, so Path.resolve() and os.path.abspath agree.            *)
(***************************************************************************)
CWD == <<"/","w">>
HOME == <<"/","h">>

\* posixpath.normpath, applied to an absolute path
RECURSIVE NormComps(_, _)
NormComps(comps, acc) ==
    IF comps = <<>> THEN acc
    ELSE LET c == Head(comps)
         IN  IF c = <<>> \/ c = <<".">> THEN NormComps(Tail(comps), acc)
             ELSE IF c = <<".",".">>
                  THEN NormComps(Tail(comps),
                                 IF acc = <<>> THEN acc ELSE SubSeq(acc, 1, Len(acc) - 1))
             ELSE NormComps(Tail(comps), Append(acc, c))

\* os.path.abspath(path) and Path(path).resolve()
AbsPath(path) ==
    LET joined == IF StartsWith(path, <<"/">>) THEN path ELSE CWD \o <<"/">> \o path
    IN  <<"/">> \o Join(NormComps(SplitOn(joined, "/"), <<>>), <<"/">>)

\* PurePath.name: what follows the last slash
Name(path) == SubSeq(path, RFind(path, "/") + 1, Len(path))

\* PurePath.suffix: from the last dot of the name, unless the dot is its first or last character
Suffix(path) ==
    LET name == Name(path)
        i == RFind(name, ".")
    IN  IF 1 < i /\ i < Len(name) THEN SubSeq(name, i, Len(name)) ELSE <<>>

\* fnmatch.fnmatch(name, pat) on a POSIX system: * matches any run of characters, the slash
\* included, ? any one character, anything else itself (no pattern here has a bracket)
RECURSIVE FnMatchFrom(_, _, _, _)
FnMatchFrom(name, pat, i, j) ==
    IF j > Len(pat) THEN i > Len(name)
    ELSE IF pat[j] = "*"
         THEN FnMatchFrom(name, pat, i, j + 1)
              \/ (i <= Len(name) /\ FnMatchFrom(name, pat, i + 1, j))
    ELSE IF pat[j] = "?"
         THEN i <= Len(name) /\ FnMatchFrom(name, pat, i + 1, j + 1)
    ELSE i <= Len(name) /\ name[i] = pat[j] /\ FnMatchFrom(name, pat, i + 1, j + 1)

FnMatch(name, pat) == FnMatchFrom(name, pat, 1, 1)

(***************************************************************************)
(* The filesystem.                                                         *)
(***************************************************************************)
CC_JSON == <<"c","o","m","p","i","l","e","_","c","o","m","m","a","n","d","s",".","j","s","o","n">>

NoFile == [exists |-> FALSE, entries |-> <<>>]

IsDir(path) == path \in DOMAIN kind /\ kind[path] = "dir"

Exists(path) == path \in DOMAIN kind /\ kind[path] # "absent"

\* the regular files under directory d, as paths relative to d
FilesUnder(d) == tree[d] \cup (IF ccjson[d].exists THEN {CC_JSON} ELSE {})

\* the directory part of a relative path ("" for a file of the top directory)
DirOf(rel) == SubSeq(rel, 1, RFind(rel, "/"))

\* the orders in which the elements of a finite set can be listed
RECURSIVE Perms(_)
Perms(S) ==
    IF S = {} THEN {<<>>}
    ELSE UNION {{<<x>> \o p : p \in Perms(S \ {x})} : x \in S}

\* os.walk(proj), flattened to the files it yields: the files of one directory come
\* together, in any order, and before those of the directories below it
WalkOrders(d) ==
    {o \in Perms(FilesUnder(d)) :
        \A i, j \in 1..Len(o) :
            i < j => /\ ~(DirOf(o[j]) # DirOf(o[i]) /\ StartsWith(DirOf(o[i]), DirOf(o[j])))
                     /\ \A m \in i..j : DirOf(o[i]) = DirOf(o[j]) => DirOf(o[m]) = DirOf(o[i])}

(***************************************************************************)
(* generate_compile_commands                                               *)
(***************************************************************************)
DEFAULT_CPP_SUFFIXES == <<<<".","c">>, <<".","c","c">>, <<".","c","p","p">>, <<".","c","x","x">>>>
DEFAULT_CUDA_SUFFIXES == <<<<".","c","u">>>>

GPP == <<"g","+","+">>
NVCC == <<"n","v","c","c">>
DASH_C == <<"-","c">>

\* any(fnmatch.fnmatch(relpath, pattern) for pattern in ignore_formats)
Ignored(relpath, ignore_formats) ==
    \E k \in 1..Len(ignore_formats) : FnMatch(relpath, ignore_formats[k])

\* the C/C++ test is made first and the CUDA test fails over to "skip"
ClassifyCudaFirst(relpath, cpp_suffixes, cuda_suffixes) ==
    IF In(Suffix(relpath), cuda_suffixes) THEN "cuda"
    ELSE IF In(Suffix(relpath), cpp_suffixes) THEN "cpp"
    ELSE "skip"

\* lines 65-71: which branch a file that is not ignored takes
Classify(relpath, cpp_suffixes, cuda_suffixes) ==
    IF In(Suffix(relpath), cpp_suffixes) THEN "cpp"
    ELSE IF In(Suffix(relpath), cuda_suffixes) THEN "cuda"
    ELSE "skip"

CommandListNoInherit(fkind, relpath, cpp, cuda, inherit) ==
    IF fkind = "cpp" THEN <<GPP>> \o cpp \o <<DASH_C, relpath>>
    ELSE <<NVCC>> \o cuda \o <<DASH_C, relpath>>

\* lines 66-69: the command as a list
CommandList(fkind, relpath, cpp, cuda, inherit) ==
    IF fkind = "cpp" THEN <<GPP>> \o cpp \o <<DASH_C, relpath>>
    ELSE <<NVCC>> \o (IF inherit THEN cpp ELSE <<>>) \o cuda \o <<DASH_C, relpath>>

SkipsIgnoreTest(relpath, ignore_formats, cpp_suffixes, cuda_suffixes) ==
    Classify(relpath, cpp_suffixes, cuda_suffixes) # "skip"

\* lines 61-71: whether the file gets an entry
Qualifies(relpath, ignore_formats, cpp_suffixes, cuda_suffixes) ==
    /\ ~Ignored(relpath, ignore_formats)
    /\ Classify(relpath, cpp_suffixes, cuda_suffixes) # "skip"

\* lines 57-78, for the files in the order the walk yields them
RECURSIVE WalkEntries(_, _, _, _, _, _, _, _)
WalkEntries(order, proj, cpp, cuda, inherit, ignore_formats, cpp_suffixes, cuda_suffixes) ==
    IF order = <<>> THEN <<>>
    ELSE LET path == proj \o <<"/">> \o Head(order)                 \* Path(root) / fname
             relpath == SubSeq(path, Len(proj) + 2, Len(path))   \* path.relative_to(proj)
             rest == WalkEntries(Tail(order), proj, cpp, cuda, inherit,
                                 ignore_formats, cpp_suffixes, cuda_suffixes)
         IN  IF Qualifies(relpath, ignore_formats, cpp_suffixes, cuda_suffixes)
             THEN <<[directory |-> proj,
                     file |-> relpath,
                     command |-> Join(CommandList(Classify(relpath, cpp_suffixes, cuda_suffixes),
                                                  relpath, cpp, cuda, inherit), <<" ">>)]>> \o rest
             ELSE rest

\* the call without the test of lines 49-50: os.walk of what is no directory yields
\* nothing, and the output is written if its directory exists
GenerateCompileCommandsUnchecked(proj_path, cpp, cuda, inherit, ignore_formats, extra_cpp_suffixes, extra_cuda_suffixes, output_dir, order) ==
    LET proj == AbsPath(proj_path)
        output_d == IF output_dir = None THEN proj ELSE AbsPath(output_dir)
    IN  IF ~IsDir(output_d)
        THEN [raised |-> "OSError", entries |-> <<>>, count |-> 0, output_d |-> None]
        ELSE [raised |-> "", entries |-> <<>>, count |-> 0, output_d |-> output_d]

\* the call as a whole: what it raises, the entries, the file it writes and the count it
\* returns.  order is the order in which os.walk yields the files of the root.
GenerateCompileCommands(proj_path, cpp, cuda, inherit, ignore_formats, extra_cpp_suffixes, extra_cuda_suffixes, output_dir, order) ==
    LET cpp_suffixes == DEFAULT_CPP_SUFFIXES \o extra_cpp_suffixes
        cuda_suffixes == DEFAULT_CUDA_SUFFIXES \o extra_cuda_suffixes
        proj == AbsPath(proj_path)
        entries == WalkEntries(order, proj, cpp, cuda, inherit, ignore_formats,
                               cpp_suffixes, cuda_suffixes)
        output_d == IF output_dir = None THEN proj ELSE AbsPath(output_dir)
    IN  IF ~IsDir(proj)
        THEN [raised |-> "ValueError", entries |-> <<>>, count |-> 0, output_d |-> None]
        ELSE IF ~IsDir(output_d)
        THEN [raised |-> "OSError", entries |-> entries, count |-> 0, output_d |-> None]
        ELSE [raised |-> "", entries |-> entries, count |-> Len(entries), output_d |-> output_d]

\* the orders os.walk can take for a call on proj_path (one, empty, when it is no directory)
OrdersFor(proj_path) ==
    IF IsDir(AbsPath(proj_path)) THEN WalkOrders(AbsPath(proj_path)) ELSE {<<>>}

\* the compile_commands.json files after a call that returned r
WriteOutput(r) ==
    IF r.raised = "" THEN [ccjson EXCEPT ![r.output_d] = [exists |-> TRUE, entries |-> r.entries]]
    ELSE ccjson

(***************************************************************************)
(* The paths and inputs the specifications draw from.                      *)
(***************************************************************************)
P_ABS == <<"/","w","/","p">>       \* a project directory
Q_ABS == <<"/","w","/","q">>       \* a path that is no directory
DEFAULT_PLACEHOLDER_DIR == HOME \o <<"/",".","c","o","n","f","i","g","/","c","o","m","p","i","l","e","_","c","o","m","m","a","n","d","s","_","g","e","n","e","r","a","t","o","r","/","p","l","a","c","e","h","o","l","d","e","r","_","D","O","_","N","O","T","_","E","D","I","T">>

PathUniverse == {P_ABS, Q_ABS, DEFAULT_PLACEHOLDER_DIR}

FilePool == {<<"a",".","c","p","p">>, <<"b",".","c","u">>, <<"r",".","m","d">>, <<"s","/","k",".","c","u">>, <<"k",".","c","u","h">>}
IgnorePool == {<<"*",".","m","d">>, <<"*",".","c","u">>, <<"s","/","?",".","*">>}
\* pairs of (cpp_args, cuda_args)
ArgPairs == {<<<<>>, <<<<"-","I","b">>>>>>, <<<<<<"-","I","a">>>>, <<<<"-","I","a">>, <<"-","O","2">>>>>>,
             <<<<<<"-","I","a">>, <<"-","O","2">>>>, <<<<"-","I","b">>>>>>}
\* pairs of (extra_cpp_suffixes, extra_cuda_suffixes)
ExtraSuffixes == {<<<<>>, <<>>>>, <<<<<<".","c","u">>>>, <<>>>>, <<<<>>, <<<<".","c","u","h">>>>>>}

\* the sequences over S of length at most n
SeqsUpTo(S, n) == UNION {[1..k -> S] : k \in 0..n}

\* the subsets of S of at most n elements
SubsetsUpTo(S, n) == {T \in SUBSET S : Cardinality(T) <= n}

\* a machine on which every probe fails
NoToolchain == [nvcc_version |-> None, compute_cap |-> None, torch |-> FALSE, cutlass |-> FALSE]

\* no process waits in subprocess.call
NoParent == [waiting |-> FALSE, argv |-> <<>>, args |-> <<>>]

IdleProc ==
    /\ env = NoToolchain
    /\ pc = "none"
    /\ argv = <<>>
    /\ args = <<>>
    /\ cpp_args = <<>>
    /\ cuda_args = <<>>
    /\ cuda_inherit_cpp = FALSE
    /\ entry_count = 0
    /\ exit_status = -1
    /\ passes = <<>>
    /\ parent = NoParent

(***************************************************************************)
(* SpecWalk: generate_compile_commands applied once to drawn arguments.    *)
(***************************************************************************)
WalkCalls ==
    {[proj_path |-> root, cpp_args |-> ab[1], cuda_args |-> ab[2],
      cuda_inherit_cpp |-> inh, ignore_formats |-> ig,
      extra_cpp_suffixes |-> xs[1], extra_cuda_suffixes |-> xs[2],
      output_dir |-> None, seen |-> {}] :
        root \in {<<"p">>, <<"q">>}, ab \in ArgPairs, inh \in BOOLEAN,
        ig \in SeqsUpTo(IgnorePool, MaxIgnore), xs \in ExtraSuffixes}

InitWalk ==
    /\ \E F \in SubsetsUpTo(FilePool, MaxFiles), stale \in BOOLEAN,
          rk \in {<<<<"p">>, "absent">>, <<<<"q">>, "absent">>, <<<<"q">>, "file">>} :
          /\ kind = [p \in PathUniverse |->
                        IF p = P_ABS THEN "dir" ELSE IF p = Q_ABS THEN rk[2] ELSE "absent"]
          /\ tree = [p \in PathUniverse |-> IF p = P_ABS THEN F ELSE {}]
          /\ ccjson = [p \in PathUniverse |->
                        IF p = P_ABS /\ stale THEN [exists |-> TRUE, entries |-> <<>>]
                        ELSE NoFile]
          /\ call \in {c \in WalkCalls : c.proj_path = rk[1]}
    /\ history = [exists |-> FALSE, items |-> <<>>]
    /\ IdleProc
    /\ ret = [done |-> FALSE]

WalkCall ==
    /\ ~ret.done
    /\ \E order \in OrdersFor(call.proj_path) :
          LET r == GenerateCompileCommands(call.proj_path, call.cpp_args, call.cuda_args,
                                           call.cuda_inherit_cpp, call.ignore_formats,
                                           call.extra_cpp_suffixes, call.extra_cuda_suffixes,
                                           call.output_dir, order)
          IN  /\ ret' = [done |-> TRUE, raised |-> r.raised, count |-> r.count,
                         entries |-> r.entries]
              /\ ccjson' = WriteOutput(r)
              /\ call' = [call EXCEPT !.seen =
                             IF IsDir(AbsPath(call.proj_path))
                             THEN FilesUnder(AbsPath(call.proj_path)) ELSE {}]
    /\ UNCHANGED <<kind, tree, history, procVars>>

NextWalk == WalkCall

SpecWalk == InitWalk /\ [][NextWalk]_vars


(***************************************************************************)
(* Claims about generate_compile_commands (SpecWalk).                      *)
(***************************************************************************)
WalkOk == ret.done /\ ret.raised = ""

\* the suffix sets of the call made
CallCppSuffixes == DEFAULT_CPP_SUFFIXES \o call.extra_cpp_suffixes
CallCudaSuffixes == DEFAULT_CUDA_SUFFIXES \o call.extra_cuda_suffixes
HasCppSuffix(f) == In(Suffix(f), CallCppSuffixes)
HasCudaSuffix(f) == In(Suffix(f), CallCudaSuffixes)
CallIgnores(f) == \E k \in 1..Len(call.ignore_formats) : FnMatch(f, call.ignore_formats[k])

\* the entries returned for file f, and the words of a command
EntriesOf(f) == {i \in 1..Len(ret.entries) : ret.entries[i].file = f}
Words(command) == SplitOn(command, " ")
Compiler(command) == Words(command)[1]
\* the words between the compiler name and the closing "-c <relpath>"
ArgumentList(command) == SubSeq(Words(command), 2, Len(Words(command)) - 2)
IsPrefix(p, s) == Len(p) <= Len(s) /\ SubSeq(s, 1, Len(p)) = p

\* C3, as the claim states it: every file with a CUDA suffix that no ignore pattern matches
\* gets exactly one entry, its compiler is nvcc, and its argument list starts with the C/C++
\* argument list if and only if the inherit flag is set.
C3_AsStated ==
    WalkOk =>
        \A f \in call.seen :
            (HasCudaSuffix(f) /\ ~CallIgnores(f)) =>
                /\ Cardinality(EntriesOf(f)) = 1
                /\ \A i \in EntriesOf(f) :
                      /\ Compiler(ret.entries[i].command) = NVCC
                      /\ IsPrefix(call.cpp_args, ArgumentList(ret.entries[i].command))
                            <=> call.cuda_inherit_cpp

\* C3, amended: every file whose suffix is in the CUDA suffix set and not in the C/C++ suffix
\* set, and that no ignore pattern matches, gets exactly one entry; its compiler is nvcc and
\* its argument list is the C/C++ list followed by the CUDA list when the inherit flag is set,
\* and the CUDA list alone when it is not.
C3_CudaEntries ==
    WalkOk =>
        \A f \in call.seen :
            (HasCudaSuffix(f) /\ ~HasCppSuffix(f) /\ ~CallIgnores(f)) =>
                /\ Cardinality(EntriesOf(f)) = 1
                /\ \A i \in EntriesOf(f) :
                      /\ Compiler(ret.entries[i].command) = NVCC
                      /\ ArgumentList(ret.entries[i].command) =
                            IF call.cuda_inherit_cpp THEN call.cpp_args \o call.cuda_args
                            ELSE call.cuda_args
                      /\ call.cuda_inherit_cpp =>
                            IsPrefix(call.cpp_args, ArgumentList(ret.entries[i].command))

\* a call with the inherit flag set and a non-empty C/C++ list that made an nvcc entry
C3_Witness ==
    /\ WalkOk
    /\ call.cuda_inherit_cpp
    /\ call.cpp_args # <<>>
    /\ \E f \in call.seen :
          /\ HasCudaSuffix(f) /\ ~HasCppSuffix(f) /\ ~CallIgnores(f)
          /\ EntriesOf(f) # {}

\* C4: a file under the root gets no entry when an ignore pattern matches its relative path
\* or its suffix is in neither suffix set, and exactly one entry otherwise; every entry is
\* the entry of a file under the root; the count returned is the number of entries written
\* to compile_commands.json.
C4_EntriesPerFile ==
    WalkOk =>
        /\ \A f \in call.seen :
              Cardinality(EntriesOf(f)) =
                 IF CallIgnores(f) \/ (~HasCppSuffix(f) /\ ~HasCudaSuffix(f)) THEN 0 ELSE 1
        /\ \A i \in 1..Len(ret.entries) : ret.entries[i].file \in call.seen
        /\ ccjson[AbsPath(call.proj_path)].exists
        /\ ret.count = Len(ccjson[AbsPath(call.proj_path)].entries)
        /\ ccjson[AbsPath(call.proj_path)].entries = ret.entries

\* a call that skipped a source file for an ignore pattern, skipped a file for its suffix
\* and made an entry for another
C4_Witness ==
    /\ WalkOk
    /\ \E f \in call.seen : CallIgnores(f) /\ (HasCppSuffix(f) \/ HasCudaSuffix(f))
    /\ \E f \in call.seen : ~CallIgnores(f) /\ ~HasCppSuffix(f) /\ ~HasCudaSuffix(f)
    /\ ret.count = 1

\* C5: every file with a C/C++ suffix that no ignore pattern matches gets exactly one
\* entry, made with g++ and ending in "-c <relpath>", also when its suffix is a CUDA suffix
\* too; it gets no nvcc entry.
C5_CppPrecedence ==
    WalkOk =>
        \A f \in call.seen :
            (HasCppSuffix(f) /\ ~CallIgnores(f)) =>
                /\ Cardinality(EntriesOf(f)) = 1
                /\ \A i \in EntriesOf(f) :
                      /\ Compiler(ret.entries[i].command) = GPP
                      /\ StartsWith(ret.entries[i].command, <<"g","+","+"," ">>)
                      /\ EndsWith(ret.entries[i].command, <<" ","-","c"," ">> \o f)
                      /\ ~StartsWith(ret.entries[i].command, NVCC)

\* a call that made an entry for a file whose suffix is in both suffix sets
C5_Witness ==
    /\ WalkOk
    /\ \E f \in call.seen :
          HasCppSuffix(f) /\ HasCudaSuffix(f) /\ ~CallIgnores(f) /\ EntriesOf(f) # {}

(***************************************************************************)
(* share_includes                                                          *)
(***************************************************************************)
INCLUDE_PREFIX == <<"-","I">>

\* list.extend(x for x in src if ...) on a list comprehension: the test sees dst as it was
ExtendIncludesEager(dst, src, k) ==
    dst \o SelectSeq(src, LAMBDA inc : StartsWith(inc, INCLUDE_PREFIX) /\ ~In(inc, dst))

\* lines 235-239 and 240-244: dst.extend(inc for inc in src if inc.startswith("-I") and
\* inc not in dst).  The generator is consumed while the list grows, so the test sees the
\* elements already appended.  k is the position reached in src.
RECURSIVE ExtendIncludes(_, _, _)
ExtendIncludes(dst, src, k) ==
    IF k > Len(src) THEN dst
    ELSE IF StartsWith(src[k], INCLUDE_PREFIX) /\ ~In(src[k], dst)
         THEN ExtendIncludes(Append(dst, src[k]), src, k + 1)
    ELSE ExtendIncludes(dst, src, k + 1)

\* share_includes(cpp_args, cuda_args)
ShareIncludes(cpp, cuda) ==
    LET cpp2 == ExtendIncludes(cpp, cuda, 1)
        cuda2 == ExtendIncludes(cuda, cpp2, 1)
    IN  <<cpp2, cuda2>>

FlagPool == {<<"-","I","a">>, <<"-","I","b">>, <<"-","I">>, <<"-","O","2">>}

InitShare ==
    /\ kind = [p \in PathUniverse |-> "absent"]
    /\ tree = [p \in PathUniverse |-> {}]
    /\ ccjson = [p \in PathUniverse |-> NoFile]
    /\ history = [exists |-> FALSE, items |-> <<>>]
    /\ IdleProc
    /\ \E a \in SeqsUpTo(FlagPool, MaxArgs), b \in SeqsUpTo(FlagPool, MaxArgs) :
          call = [cpp_args |-> a, cuda_args |-> b]
    /\ ret = [done |-> FALSE]

ShareCall ==
    /\ ~ret.done
    /\ LET r == ShareIncludes(call.cpp_args, call.cuda_args)
       IN  ret' = [done |-> TRUE, cpp_args |-> r[1], cuda_args |-> r[2]]
    /\ UNCHANGED <<fsVars, procVars, call>>

NextShare == ShareCall

SpecShare == InitShare /\ [][NextShare]_vars

IsInclude(x) == Len(x) >= 2 /\ x[1] = "-" /\ x[2] = "I"
Elems(t) == {t[k] : k \in 1..Len(t)}
FirstIndex(x, t) == CHOOSE k \in 1..Len(t) : t[k] = x /\ \A m \in 1..(k - 1) : t[m] # x

\* what merging src into old must give as new: old kept as a prefix, and after it include
\* flags of src only, none of them twice or already in old, in the order src meets them
MergedFrom(old, new, src) ==
    /\ Len(new) >= Len(old)
    /\ SubSeq(new, 1, Len(old)) = old
    /\ \A k \in (Len(old) + 1)..Len(new) :
          /\ IsInclude(new[k])
          /\ new[k] \in Elems(src)
          /\ Count(new[k], new) = 1
    /\ \A i, j \in (Len(old) + 1)..Len(new) :
          i < j => FirstIndex(new[i], src) < FirstIndex(new[j], src)

\* C6: after share_includes(A, B) every include flag of A or B is in both lists, no element
\* was added to a list that has it already or added twice, each list starts with what it
\* was, what is appended comes in the order of the other list, and only include flags are
\* appended.
C6_ShareIncludes ==
    ret.done =>
        /\ \A x \in Elems(call.cpp_args) \cup Elems(call.cuda_args) :
              IsInclude(x) => x \in Elems(ret.cpp_args) /\ x \in Elems(ret.cuda_args)
        /\ MergedFrom(call.cpp_args, ret.cpp_args, call.cuda_args)
        /\ MergedFrom(call.cuda_args, ret.cuda_args, call.cpp_args)

\* a merge that appended to both lists, from a list that has an include flag twice
C6_Witness ==
    /\ ret.done
    /\ Len(ret.cpp_args) > Len(call.cpp_args)
    /\ Len(ret.cuda_args) > Len(call.cuda_args)
    /\ \E x \in Elems(call.cuda_args) : IsInclude(x) /\ Count(x, call.cuda_args) = 2


(***************************************************************************)
(* The history store: list_history, load_last_command, save_last_command.  *)
(* The file holds a JSON object of strings, which json.dump and json.load  *)
(* carry over unchanged; it is kept as the list of its items, in order.    *)
(***************************************************************************)
NoHistory == [exists |-> FALSE, items |-> <<>>]

\* dict.get(key): the value stored under key, if any
DictGet(items, key) ==
    IF \E k \in 1..Len(items) : items[k].key = key
    THEN items[CHOOSE k \in 1..Len(items) : items[k].key = key].value
    ELSE None

\* dict[key] = value: the value of an existing key is replaced where it stands, a new key
\* is added at the end
DictSet(items, key, value) ==
    IF \E k \in 1..Len(items) : items[k].key = key
    THEN [k \in 1..Len(items) |->
             IF items[k].key = key THEN [key |-> key, value |-> value] ELSE items[k]]
    ELSE Append(items, [key |-> key, value |-> value])

HistoryKeyAsGiven(project_root) == project_root

\* lines 336, 347: os.path.abspath(project_root)
HistoryKey(project_root) == AbsPath(project_root)

\* list_history(): the (project, command) pairs printed, or None for "No history recorded yet."
ListHistory(h) == IF ~h.exists THEN None ELSE h.items

\* load_last_command(project_root)
LoadLastCommand(h, project_root) ==
    IF ~h.exists THEN None ELSE DictGet(h.items, HistoryKey(project_root))

\* save_last_command(project_root, argv): the history file afterwards
SaveLastCommand(h, project_root, argv_) ==
    LET read == IF h.exists THEN h.items ELSE <<>>
    IN  [exists |-> TRUE,
         items |-> DictSet(read, HistoryKey(project_root), Join(argv_, <<" ">>))]

PROG == <<"c","l","i",".","p","y">>        \* sys.argv[0]

HistRoots == {<<"p">>, <<".","/","p">>, <<"q">>}
HistArgvs == {<<PROG, <<"-","r">>, <<"p">>>>, <<PROG, <<"-","r">>, <<"q">>, <<"-","n","c","i">>>>}

InitHist ==
    /\ kind = [p \in PathUniverse |-> "absent"]
    /\ tree = [p \in PathUniverse |-> {}]
    /\ ccjson = [p \in PathUniverse |-> NoFile]
    /\ history = NoHistory
    /\ IdleProc
    /\ call = [op |-> "none", project_root |-> None, argv |-> <<>>, log |-> <<>>,
               before |-> NoHistory, n |-> 0]
    /\ ret = None

HistSave ==
    /\ call.n < MaxOps
    /\ \E root \in HistRoots, a \in HistArgvs :
          /\ history' = SaveLastCommand(history, root, a)
          /\ call' = [op |-> "save", project_root |-> root, argv |-> a,
                      log |-> Append(call.log, [project_root |-> root, argv |-> a]),
                      before |-> history, n |-> call.n + 1]
    /\ ret' = None
    /\ UNCHANGED <<kind, tree, ccjson, procVars>>

HistLoad ==
    /\ call.n < MaxOps
    /\ \E root \in HistRoots :
          /\ ret' = LoadLastCommand(history, root)
          /\ call' = [call EXCEPT !.op = "load", !.project_root = root, !.argv = <<>>,
                                  !.before = history, !.n = call.n + 1]
    /\ UNCHANGED <<fsVars, procVars>>

HistList ==
    /\ call.n < MaxOps
    /\ ret' = ListHistory(history)
    /\ call' = [call EXCEPT !.op = "list", !.project_root = None, !.argv = <<>>,
                            !.before = history, !.n = call.n + 1]
    /\ UNCHANGED <<fsVars, procVars>>

NextHist == HistSave \/ HistLoad \/ HistList

SpecHist == InitHist /\ [][NextHist]_vars

\* the Saves made so far for the project whose absolute path is that of root
SavesFor(root) == {i \in 1..Len(call.log) : AbsPath(call.log[i].project_root) = AbsPath(root)}

\* the invocation string of the most recent Save for root, None when there was none
LastSaved(root) ==
    IF SavesFor(root) = {} THEN None
    ELSE Join(call.log[CHOOSE i \in SavesFor(root) : \A j \in SavesFor(root) : j <= i].argv,
              <<" ">>)

\* the value stored in h for the project whose absolute path is that of root
Stored(h, root) ==
    LET hits == {k \in 1..Len(h.items) : h.items[k].key = AbsPath(root)}
    IN  IF ~h.exists \/ hits = {} THEN None ELSE h.items[CHOOSE k \in hits : TRUE].value

\* C7: Load(p) returns the invocation string of the most recent Save for the absolute path
\* of p, and "not found" when there was none (the history file then may not exist); Save
\* sets the entry of its project and leaves every other entry as it was; Load and List do
\* not change the store.
C7_HistoryStore ==
    /\ call.op = "load" => ret = LastSaved(call.project_root) /\ history = call.before
    /\ call.op = "list" => history = call.before
    /\ call.op = "save" =>
          /\ Stored(history, call.project_root) = Join(call.argv, <<" ">>)
          /\ \A root \in HistRoots :
                AbsPath(root) # AbsPath(call.project_root) =>
                    Stored(history, root) = Stored(call.before, root)
          /\ \A k \in 1..Len(history.items) :
                \E root \in HistRoots : history.items[k].key = AbsPath(root)
    /\ \A root \in HistRoots : Stored(history, root) = LastSaved(root)
    /\ history.exists <=> call.log # <<>>

\* a Load that found the second of two Saves made for one project under two spellings
C7_Witness ==
    /\ call.op = "load"
    /\ ret # None
    /\ Len(call.log) = 2
    /\ call.log[1].project_root # call.log[2].project_root
    /\ call.log[1].argv # call.log[2].argv
    /\ SavesFor(call.project_root) = {1, 2}
    /\ ret = Join(call.log[2].argv, <<" ">>)


(***************************************************************************)
(* The environment probes.  env holds what the machine answers: the three  *)
(* numbers nvcc --version prints (None when nvcc is missing or its output  *)
(* does not parse), the compute capability nvidia-smi prints (None when it *)
(* fails), whether torch is installed under site-packages, and whether the *)
(* three CUTLASS directories exist under the root given.                   *)
(***************************************************************************)
\* str(int(digits)): leading zeros go
RECURSIVE IntStr(_)
IntStr(digits) ==
    IF Len(digits) > 1 /\ Head(digits) = "0" THEN IntStr(Tail(digits)) ELSE digits

\* detect_cuda_args()
DetectCudaArgs(e) ==
    IF e.nvcc_version = None \/ e.compute_cap = None THEN <<>>
    ELSE LET cuda_ver_major == IntStr(e.nvcc_version[1])
             cuda_ver_minor == IntStr(e.nvcc_version[2])
             cuda_ver_build == IntStr(e.nvcc_version[3])
             cuda_path == <<"/","u","s","r","/","l","o","c","a","l","/","c","u","d","a","-">> \o cuda_ver_major \o <<".">> \o cuda_ver_minor
             major_minor == SplitOn(Strip(e.compute_cap), ".")
             arch_str == <<"s","m","_">> \o major_minor[1] \o major_minor[2]
             arch == SubSeq(arch_str, 4, Len(arch_str))
         IN  IF Len(major_minor) # 2 THEN <<>>
             ELSE << <<"-","-","c","u","d","a","-","p","a","t","h","=">> \o cuda_path,
                     <<"-","-","c","u","d","a","-","g","p","u","-","a","r","c","h","=">> \o arch_str,
                     <<"-","I">> \o cuda_path \o <<"/","i","n","c","l","u","d","e">>,
                     <<"-","D","_","_","C","U","D","A","C","C","_","_">>,
                     <<"-","D","_","_","C","U","D","A","_","A","R","C","H","_","_","=">> \o arch \o <<"0">>,
                     <<"-","D","_","_","C","U","D","A","_","A","R","C","H","_","L","I","S","T","_","_","=">> \o arch \o <<"0">>,
                     <<"-","D","_","_","N","V","_","L","E","G","A","C","Y","_","L","A","U","N","C","H">>,
                     <<"-","D","_","_","N","V","C","C","_","_">>,
                     <<"-","D","_","_","C","U","D","A","C","C","_","V","E","R","_","M","A","J","O","R","_","_","=">> \o cuda_ver_major,
                     <<"-","D","_","_","C","U","D","A","C","C","_","V","E","R","_","M","I","N","O","R","_","_","=">> \o cuda_ver_minor,
                     <<"-","D","_","_","C","U","D","A","C","C","_","V","E","R","_","B","U","I","L","D","_","_","=">> \o cuda_ver_build,
                     <<"-","D","_","_","C","U","D","A","_","A","P","I","_","V","E","R","_","M","A","J","O","R","_","_","=">> \o cuda_ver_major,
                     <<"-","D","_","_","C","U","D","A","_","A","P","I","_","V","E","R","_","M","I","N","O","R","_","_","=">> \o cuda_ver_minor,
                     <<"-","D","_","_","N","V","C","C","_","D","I","A","G","_","P","R","A","G","M","A","_","S","U","P","P","O","R","T","_","_","=","1">>,
                     <<"-","D","_","_","C","U","D","A","_","I","N","C","L","U","D","E","_","C","O","M","P","I","L","E","R","_","I","N","T","E","R","N","A","L","_","H","E","A","D","E","R","S","_","_">> >>

PURELIB == <<"/","s","p">>               \* sysconfig.get_paths()['purelib'] of this machine
PYTHON_INCLUDE == <<"/","p","y">>        \* sysconfig.get_paths()['include'] of this machine

\* torch_args()
TorchArgs(e) ==
    IF ~e.torch THEN <<>>
    ELSE LET torch_path == PURELIB \o <<"/","t","o","r","c","h">>
         IN  << <<"-","I">> \o torch_path,
                <<"-","I">> \o torch_path \o <<"/","i","n","c","l","u","d","e">>,
                <<"-","I">> \o torch_path \o <<"/","i","n","c","l","u","d","e","/","t","o","r","c","h","/","c","s","r","c","/","a","p","i","/","i","n","c","l","u","d","e">>,
                <<"-","I">> \o torch_path \o <<"/","i","n","c","l","u","d","e","/","T","H">>,
                <<"-","I">> \o torch_path \o <<"/","i","n","c","l","u","d","e","/","T","H","C">>,
                <<"-","I">> \o PYTHON_INCLUDE >>

\* parse_cutlass(cutlass_root)
ParseCutlass(e, cutlass_root) ==
    LET root == AbsPath(cutlass_root)
    IN  IF ~e.cutlass THEN <<>>
        ELSE << <<"-","I">> \o root \o <<"/","i","n","c","l","u","d","e">>,
                <<"-","I">> \o root \o <<"/","t","o","o","l","s","/","u","t","i","l","/","i","n","c","l","u","d","e">>,
                <<"-","I">> \o root \o <<"/","e","x","a","m","p","l","e","s","/","c","o","m","m","o","n">> >>

(***************************************************************************)
(* main(): the command line.  argparse is modelled for the forms the       *)
(* command lines here take: an option string alone, an option string       *)
(* followed by its value, and option=value; not abbreviations or "-rVALUE".*)
(***************************************************************************)
SYS_EXECUTABLE == <<"p","y","t","h","o","n">>

\* comma_split(arg)
CommaSplit(arg) ==
    LET pieces == SplitOn(arg, ",")
    IN  SelectSeq([k \in 1..Len(pieces) |-> Strip(pieces[k])], LAMBDA t : t # <<>>)

\* the options that take a value: option strings, destination, whether type=comma_split
ValueOptions ==
    { [flags |-> {<<"-","-","r","o","o","t">>, <<"-","r">>}, dest |-> "root", list |-> FALSE],
      [flags |-> {<<"-","-","c","p","p","-","a","r","g","s">>, <<"-","c","c">>}, dest |-> "cpp_args", list |-> TRUE],
      [flags |-> {<<"-","-","c","u","d","a","-","a","r","g","s">>, <<"-","c","u">>}, dest |-> "cuda_args", list |-> TRUE],
      [flags |-> {<<"-","-","c","u","t","l","a","s","s","-","r","o","o","t">>, <<"-","c","r">>}, dest |-> "cutlass_root", list |-> FALSE],
      [flags |-> {<<"-","-","i","g","n","o","r","e","-","f","o","r","m","a","t","s">>, <<"-","i","g","s">>}, dest |-> "ignore_formats", list |-> TRUE],
      [flags |-> {<<"-","-","p","l","a","c","e","h","o","l","d","e","r","-","d","i","r">>}, dest |-> "placeholder_dir", list |-> FALSE],
      [flags |-> {<<"-","-","e","x","t","r","a","-","c","p","p","-","s","u","f","f","i","x","e","s">>}, dest |-> "extra_cpp_suffixes", list |-> TRUE],
      [flags |-> {<<"-","-","e","x","t","r","a","-","c","u","d","a","-","s","u","f","f","i","x","e","s">>}, dest |-> "extra_cuda_suffixes", list |-> TRUE] }

\* the options that take none: option strings, destination, the constant stored
FlagOptions ==
    { [flags |-> {<<"-","-","n","o","-","c","u","d","a","-","i","n","h","e","r","i","t","-","c","p","p">>, <<"-","n","c","i">>}, dest |-> "cuda_inherit_cpp", const |-> FALSE],
      [flags |-> {<<"-","-","r","e","q","u","i","r","e","-","t","o","r","c","h">>, <<"-","r","t">>}, dest |-> "require_torch", const |-> TRUE],
      [flags |-> {<<"-","-","r","e","u","s","e">>, <<"-","r","s">>}, dest |-> "reuse", const |-> TRUE],
      [flags |-> {<<"-","-","l","i","s","t","-","h","i","s","t","o","r","y">>, <<"-","l","h">>}, dest |-> "list_history", const |-> TRUE] }

\* the Namespace of the defaults
DefaultNamespace ==
    [root |-> None, cpp_args |-> <<>>, cuda_args |-> <<>>, cuda_inherit_cpp |-> TRUE,
     require_torch |-> FALSE, cutlass_root |-> None, ignore_formats |-> <<>>,
     placeholder_dir |-> DEFAULT_PLACEHOLDER_DIR, extra_cpp_suffixes |-> <<>>,
     extra_cuda_suffixes |-> <<>>, reuse |-> FALSE, list_history |-> FALSE]

ParseError == [ok |-> FALSE, ns |-> DefaultNamespace]

\* whether argparse takes the word for an option rather than for a value
LooksLikeOption(t) == Len(t) > 1 /\ t[1] = "-" /\ ~In(" ", t)

IsValueOption(name) == \E o \in ValueOptions : name \in o.flags
IsFlagOption(name) == \E o \in FlagOptions : name \in o.flags
Converted(name, value) ==
    LET o == CHOOSE o \in ValueOptions : name \in o.flags
    IN  IF o.list THEN CommaSplit(value) ELSE value

\* parser.parse_args() from word k on; an error is exit status 2
RECURSIVE ParseFrom(_, _, _)
ParseFrom(toks, k, ns) ==
    IF k > Len(toks)
    THEN IF ns.root = None THEN ParseError ELSE [ok |-> TRUE, ns |-> ns]
    ELSE LET t == toks[k]
             eq == Find(t, "=")
             name == SubSeq(t, 1, eq - 1)
         IN  IF IsFlagOption(t)
             THEN LET o == CHOOSE o \in FlagOptions : t \in o.flags
                  IN  ParseFrom(toks, k + 1, [ns EXCEPT ![o.dest] = o.const])
             ELSE IF IsValueOption(t)
             THEN IF k + 1 <= Len(toks) /\ ~LooksLikeOption(toks[k + 1])
                  THEN LET o == CHOOSE o \in ValueOptions : t \in o.flags
                       IN  ParseFrom(toks, k + 2,
                                     [ns EXCEPT ![o.dest] = Converted(t, toks[k + 1])])
                  ELSE ParseError
             ELSE IF eq > 0 /\ IsValueOption(name)
             THEN LET o == CHOOSE o \in ValueOptions : name \in o.flags
                  IN  ParseFrom(toks, k + 1,
                                [ns EXCEPT ![o.dest] =
                                    Converted(name, SubSeq(t, eq + 1, Len(t)))])
             ELSE ParseError

\* args = parser.parse_args(), for sys.argv = argv_
ParseArgs(argv_) == ParseFrom(argv_, 2, DefaultNamespace)

\* the truth value of an optional string
Truthy(x) == x # None /\ x # <<>>

(***************************************************************************)
(* generate(args)                                                          *)
(***************************************************************************)
InheritFlagToggleOnly(ns) == ns.cuda_inherit_cpp

\* lines 274-284: cuda_inherit_cpp
InheritFlag(ns) ==
    IF ns.require_torch \/ Truthy(ns.cutlass_root) THEN TRUE ELSE ns.cuda_inherit_cpp

\* lines 268, 274-280: cpp_args before share_includes
CppArgsOf(ns, e) ==
    ns.cpp_args
        \o (IF ns.require_torch THEN TorchArgs(e) ELSE <<>>)
        \o (IF Truthy(ns.cutlass_root) THEN ParseCutlass(e, ns.cutlass_root) ELSE <<>>)

\* line 269: cuda_args before share_includes
CudaArgsOf(ns, e) == DetectCudaArgs(e) \o ns.cuda_args

NeedsFallbackAlways(count) == TRUE

\* line 304: whether the placeholder pass is made
NeedsFallback(count) == count = 0

CC_NAME == <<"p","l","a","c","e","h","o","l","d","e","r",".","c","c">>
CU_NAME == <<"p","l","a","c","e","h","o","l","d","e","r",".","c","u">>

PlaceholderNameCc == CC_NAME

\* line 257: the name of the file generate_empty_cc_file writes
PlaceholderName == CU_NAME

\* generate_empty_cc_file(path): the kinds and the trees afterwards
EmptyCcFileKind(path) ==
    IF Exists(AbsPath(path)) THEN kind ELSE [kind EXCEPT ![AbsPath(path)] = "dir"]

EmptyCcFileTree(path) ==
    IF Exists(AbsPath(path)) THEN tree ELSE [tree EXCEPT ![AbsPath(path)] = {PlaceholderName}]

\* try_generate(proj_root, out_dir), os.walk taking the given order
TryGenerate(proj_root, out_dir, order) ==
    GenerateCompileCommands(proj_root, cpp_args, cuda_args, cuda_inherit_cpp,
                            args.ignore_formats, args.extra_cpp_suffixes,
                            args.extra_cuda_suffixes, out_dir, order)

PassRecord(proj_root, out_dir, r) ==
    [argv |-> argv, proj_root |-> proj_root, out_dir |-> out_dir,
     cuda_inherit_cpp |-> cuda_inherit_cpp, raised |-> r.raised, count |-> r.count]

\* lines 267-286
GenSetup ==
    /\ pc = "generate"
    /\ cuda_inherit_cpp' = InheritFlag(args)
    /\ LET shared == ShareIncludes(CppArgsOf(args, env), CudaArgsOf(args, env))
       IN  /\ cpp_args' = shared[1]
           /\ cuda_args' = shared[2]
    /\ pc' = "pass1"
    /\ UNCHANGED <<fsVars, env, argv, args, entry_count, exit_status, passes, parent, call, ret>>

\* lines 302-306: the pass over the project root and, when it found nothing, the
\* placeholder file.  An error raised is not caught: the process ends with status 1.
GenPass1 ==
    /\ pc = "pass1"
    /\ \E order \in OrdersFor(args.root) :
          LET r == TryGenerate(args.root, args.root, order)
          IN  /\ passes' = Append(passes, PassRecord(args.root, args.root, r))
              /\ ccjson' = WriteOutput(r)
              /\ IF r.raised # ""
                 THEN /\ pc' = "exited"
                      /\ exit_status' = 1
                      /\ UNCHANGED <<kind, tree, entry_count>>
                 ELSE /\ entry_count' = r.count
                      /\ IF NeedsFallback(r.count)
                         THEN /\ kind' = EmptyCcFileKind(args.placeholder_dir)
                              /\ tree' = EmptyCcFileTree(args.placeholder_dir)
                              /\ pc' = "pass2"
                              /\ UNCHANGED exit_status
                         ELSE /\ pc' = "exited"
                              /\ exit_status' = 0
                              /\ UNCHANGED <<kind, tree>>
    /\ UNCHANGED <<history, env, argv, args, cpp_args, cuda_args, cuda_inherit_cpp,
                   parent, call, ret>>

\* lines 308-316: the pass over the placeholder directory, written to the project root
GenPass2 ==
    /\ pc = "pass2"
    /\ \E order \in OrdersFor(args.placeholder_dir) :
          LET r == TryGenerate(args.placeholder_dir, args.root, order)
          IN  /\ passes' = Append(passes, PassRecord(args.placeholder_dir, args.root, r))
              /\ ccjson' = WriteOutput(r)
              /\ entry_count' = IF r.raised = "" THEN r.count ELSE entry_count
              /\ exit_status' = IF r.raised = "" THEN 0 ELSE 1
    /\ pc' = "exited"
    /\ UNCHANGED <<kind, tree, history, env, argv, args, cpp_args, cuda_args,
                   cuda_inherit_cpp, parent, call, ret>>

NextGen == GenSetup \/ GenPass1 \/ GenPass2

(***************************************************************************)
(* main()                                                                  *)
(***************************************************************************)
\* lines 440: argparse rejects the command line
MainParseError ==
    /\ pc = "main"
    /\ ~ParseArgs(argv).ok
    /\ pc' = "exited"
    /\ exit_status' = 2
    /\ UNCHANGED <<fsVars, env, argv, args, cpp_args, cuda_args, cuda_inherit_cpp,
                   entry_count, passes, parent, call, ret>>

\* lines 442-444
MainListHistory ==
    /\ pc = "main"
    /\ ParseArgs(argv).ok
    /\ ParseArgs(argv).ns.list_history
    /\ args' = ParseArgs(argv).ns
    /\ ret' = ListHistory(history)
    /\ pc' = "exited"
    /\ exit_status' = 0
    /\ UNCHANGED <<fsVars, env, argv, cpp_args, cuda_args, cuda_inherit_cpp,
                   entry_count, passes, parent, call>>

\* the command line saved before the reuse test
MainReuseMissingSaves ==
    /\ pc = "main"
    /\ ParseArgs(argv).ok
    /\ ~ParseArgs(argv).ns.list_history
    /\ ParseArgs(argv).ns.reuse
    /\ LoadLastCommand(history, ParseArgs(argv).ns.root) = None
    /\ args' = ParseArgs(argv).ns
    /\ history' = SaveLastCommand(history, ParseArgs(argv).ns.root, argv)
    /\ pc' = "exited"
    /\ exit_status' = 1
    /\ UNCHANGED <<kind, tree, ccjson, env, argv, cpp_args, cuda_args, cuda_inherit_cpp,
                   entry_count, passes, parent, call, ret>>

\* lines 446-451
MainReuseMissing ==
    /\ pc = "main"
    /\ ParseArgs(argv).ok
    /\ ~ParseArgs(argv).ns.list_history
    /\ ParseArgs(argv).ns.reuse
    /\ LoadLastCommand(history, ParseArgs(argv).ns.root) = None
    /\ args' = ParseArgs(argv).ns
    /\ pc' = "exited"
    /\ exit_status' = 1
    /\ UNCHANGED <<fsVars, env, argv, cpp_args, cuda_args, cuda_inherit_cpp,
                   entry_count, passes, parent, call, ret>>

\* lines 446-455: the stored command is split at blanks and run as a child process, whose
\* sys.argv is what follows the interpreter
MainReuse ==
    /\ pc = "main"
    /\ ParseArgs(argv).ok
    /\ ~ParseArgs(argv).ns.list_history
    /\ ParseArgs(argv).ns.reuse
    /\ LoadLastCommand(history, ParseArgs(argv).ns.root) # None
    /\ LET cmd == SYS_EXECUTABLE \o <<" ">> \o LoadLastCommand(history, ParseArgs(argv).ns.root)
       IN  argv' = Tail(SplitBlank(cmd))
    /\ parent' = [waiting |-> TRUE, argv |-> argv, args |-> ParseArgs(argv).ns]
    /\ args' = DefaultNamespace
    /\ pc' = "main"
    /\ UNCHANGED <<fsVars, env, cpp_args, cuda_args, cuda_inherit_cpp, entry_count,
                   exit_status, passes, call, ret>>

\* line 455 returning: whatever the child's status, main returns and the parent ends with 0
MainReuseReturn ==
    /\ pc = "exited"
    /\ parent.waiting
    /\ argv' = parent.argv
    /\ args' = parent.args
    /\ parent' = NoParent
    /\ exit_status' = 0
    /\ UNCHANGED <<fsVars, env, pc, cpp_args, cuda_args, cuda_inherit_cpp, entry_count,
                   passes, call, ret>>

\* lines 456-458: the command line is saved, then generate(args) runs
MainSave ==
    /\ pc = "main"
    /\ ParseArgs(argv).ok
    /\ ~ParseArgs(argv).ns.list_history
    /\ ~ParseArgs(argv).ns.reuse
    /\ args' = ParseArgs(argv).ns
    /\ history' = SaveLastCommand(history, ParseArgs(argv).ns.root, argv)
    /\ pc' = "generate"
    /\ UNCHANGED <<kind, tree, ccjson, env, argv, cpp_args, cuda_args, cuda_inherit_cpp,
                   entry_count, exit_status, passes, parent, call, ret>>

Next ==
    \/ MainParseError
    \/ MainListHistory
    \/ MainReuseMissing
    \/ MainReuse
    \/ MainReuseReturn
    \/ MainSave
    \/ GenSetup
    \/ GenPass1
    \/ GenPass2

(***************************************************************************)
(* Spec: one run of the program from the command line, on a drawn machine. *)
(***************************************************************************)
CUTLASS_ROOT == <<"c">>

\* a machine with CUDA 12.6, a GPU of compute capability 9.0, torch and CUTLASS; and one
\* whose nvidia-smi answers no capability although nvcc is there
FullToolchain ==
    [nvcc_version |-> <<<<"1","2">>, <<"6">>, <<"0","2","0">>>>, compute_cap |-> <<"9",".","0">>, torch |-> TRUE,
     cutlass |-> TRUE]
HalfToolchain ==
    [nvcc_version |-> <<<<"1","2">>, <<"6">>, <<"0","2","0">>>>, compute_cap |-> <<"[","N","/","A","]">>, torch |-> FALSE,
     cutlass |-> TRUE]
EnvChoices == {NoToolchain, FullToolchain, HalfToolchain}

\* the items an earlier run on project p has left in the history file
SavedArgvs == {<<PROG, <<"-","r">>, <<"p">>, <<"-","n","c","i">>>>, <<PROG, <<"-","r">>, <<".","/","p">>, <<"-","c","r">>, <<>>>>}
HistoryChoices ==
    {NoHistory,
     [exists |-> TRUE, items |-> <<[key |-> <<"/","w","/","x">>, value |-> Join(<<PROG, <<"-","r">>, <<"x">>>>, <<" ">>)]>>]}
    \cup {SaveLastCommand(NoHistory, a[3], a) : a \in SavedArgvs}

OneOf(piece) == {<<>>, piece}

\* the command lines
Invocations ==
    {<<PROG, <<"-","r">>, root>> \o nci \o rt \o cr \o rs \o lh \o cc :
        root \in {<<"p">>, <<"q">>},
        nci \in OneOf(<<<<"-","n","c","i">>>>),
        rt \in OneOf(<<<<"-","-","r","e","q","u","i","r","e","-","t","o","r","c","h">>>>),
        cr \in {<<>>, <<<<"-","c","r">>, <<>>>>, <<<<"-","-","c","u","t","l","a","s","s","-","r","o","o","t","=","c">>>>},
        rs \in OneOf(<<<<"-","r","s">>>>),
        lh \in OneOf(<<<<"-","-","l","i","s","t","-","h","i","s","t","o","r","y">>>>),
        cc \in OneOf(<<<<"-","-","c","p","p","-","a","r","g","s","=","-","I","a",",",","," ","-","O","2">>>>)}

MainFilePool == {<<"b",".","c","u">>, <<"a",".","c","p","p">>}

Snapshot == [kind |-> kind, tree |-> tree, ccjson |-> ccjson, history |-> history]

Init ==
    /\ \E F \in SubsetsUpTo(MainFilePool, MaxFiles), ph \in BOOLEAN :
          /\ kind = [p \in PathUniverse |->
                        IF p = P_ABS \/ (p = DEFAULT_PLACEHOLDER_DIR /\ ph) THEN "dir"
                        ELSE "absent"]
          /\ tree = [p \in PathUniverse |->
                        IF p = P_ABS THEN F
                        ELSE IF p = DEFAULT_PLACEHOLDER_DIR /\ ph THEN {CU_NAME} ELSE {}]
    /\ ccjson = [p \in PathUniverse |-> NoFile]
    /\ history \in HistoryChoices
    /\ env \in EnvChoices
    /\ pc = "main"
    /\ argv \in Invocations
    /\ args = DefaultNamespace
    /\ cpp_args = <<>>
    /\ cuda_args = <<>>
    /\ cuda_inherit_cpp = FALSE
    /\ entry_count = 0
    /\ exit_status = -1
    /\ passes = <<>>
    /\ parent = NoParent
    /\ call = Snapshot
    /\ ret = None

Spec == Init /\ [][Next]_vars


(***************************************************************************)
(* SpecGen: generate(args) called once, on a drawn Namespace and tree.     *)
(***************************************************************************)
GenIgnorePool == {<<"*",".","c","u">>, <<"p","l","a","c","e","*">>, <<"b",".","*">>}

InitGen ==
    /\ \E F \in SubsetsUpTo(FilePool, MaxFiles),
          rk \in {<<<<".","/","p">>, "absent">>, <<<<"q">>, "absent">>, <<<<"q">>, "file">>},
          ph \in {"absent", "file", "empty", "placeholder"},
          pd \in {DEFAULT_PLACEHOLDER_DIR, <<"p">>},
          ig \in SeqsUpTo(GenIgnorePool, MaxIgnore),
          xcpp \in {<<>>, <<<<".","c","u">>>>} :
          /\ kind = [p \in PathUniverse |->
                        IF p = P_ABS THEN "dir"
                        ELSE IF p = Q_ABS THEN rk[2]
                        ELSE IF ph \in {"empty", "placeholder"} THEN "dir" ELSE ph]
          /\ tree = [p \in PathUniverse |->
                        IF p = P_ABS THEN F
                        ELSE IF p = DEFAULT_PLACEHOLDER_DIR /\ ph = "placeholder" THEN {CU_NAME}
                        ELSE {}]
          /\ args = [DefaultNamespace EXCEPT !.root = rk[1], !.placeholder_dir = pd,
                                             !.ignore_formats = ig,
                                             !.extra_cpp_suffixes = xcpp]
    /\ ccjson = [p \in PathUniverse |-> NoFile]
    /\ history = NoHistory
    /\ env = NoToolchain
    /\ pc = "generate"
    /\ argv = <<>>
    /\ cpp_args = <<>>
    /\ cuda_args = <<>>
    /\ cuda_inherit_cpp = FALSE
    /\ entry_count = 0
    /\ exit_status = -1
    /\ passes = <<>>
    /\ parent = NoParent
    /\ call = Snapshot
    /\ ret = None

SpecGen == InitGen /\ [][NextGen]_vars

(***************************************************************************)
(* Claims about generate (SpecGen).  call holds the filesystem as it was   *)
(* when the run began.                                                     *)
(***************************************************************************)
Done == pc = "exited" /\ exit_status = 0
RootAbs == AbsPath(args.root)
PlaceholderAbs == AbsPath(args.placeholder_dir)
RootWasDir == call.kind[RootAbs] = "dir"
ArgsIgnore(f) == \E k \in 1..Len(args.ignore_formats) : FnMatch(f, args.ignore_formats[k])
ArgsCppSuffix(f) == In(Suffix(f), DEFAULT_CPP_SUFFIXES \o args.extra_cpp_suffixes)
ArgsCudaSuffix(f) == In(Suffix(f), DEFAULT_CUDA_SUFFIXES \o args.extra_cuda_suffixes)

\* the two-attempt controller: no pass before the first, the second only after a first that
\* returned 0, never a third
FallbackOrder ==
    /\ Len(passes) <= 2
    /\ pc \in {"generate", "pass1"} => passes = <<>>
    /\ pc = "pass2" => Len(passes) = 1
    /\ Len(passes) = 2 => passes[1].raised = "" /\ passes[1].count = 0
    /\ (pc \in {"pass2", "exited"} /\ Len(passes) = 1 /\ passes[1].raised = ""
           /\ passes[1].count = 0) => pc = "pass2"

\* C1, as the claim states it: the placeholder pass runs if and only if the first pass
\* returned 0 entries, there are at most two passes, and every run on a project root that
\* is a directory ends done and without an error, whatever the placeholder directory and
\* the ignore patterns are.
C1_AsStated ==
    /\ FallbackOrder
    /\ (RootWasDir /\ pc = "exited") =>
          Done /\ \A i \in 1..Len(passes) : passes[i].raised = ""

\* C1, amended: as stated, for every placeholder path that does not exist or is a
\* directory when the run begins; when it exists and is no directory, the second pass
\* raises the invalid-argument error and the run ends with it, status 1.
C1_Fallback ==
    /\ FallbackOrder
    /\ (RootWasDir /\ call.kind[PlaceholderAbs] # "file" /\ pc = "exited") =>
          Done /\ \A i \in 1..Len(passes) : passes[i].raised = ""
    /\ (RootWasDir /\ call.kind[PlaceholderAbs] = "file" /\ Len(passes) = 2) =>
          passes[2].raised = "ValueError" /\ pc = "exited" /\ exit_status = 1

\* a run that is done after a placeholder pass that returned 0 entries too, the
\* placeholder file being there and ignored
C1_Witness ==
    /\ Done
    /\ Len(passes) = 2
    /\ passes[2].count = 0
    /\ CU_NAME \in tree[PlaceholderAbs]
    /\ ArgsIgnore(CU_NAME)

\* no file under the project root qualified when the run began
NoQualifyingSource ==
    \A f \in call.tree[RootAbs] : ArgsIgnore(f) \/ (~ArgsCppSuffix(f) /\ ~ArgsCudaSuffix(f))

\* compile_commands.json of the project root holds one entry, for placeholder.cu, made
\* with nvcc
OnePlaceholderEntry ==
    /\ ccjson[RootAbs].exists
    /\ Len(ccjson[RootAbs].entries) = 1
    /\ ccjson[RootAbs].entries[1].file = CU_NAME
    /\ StartsWith(ccjson[RootAbs].entries[1].command, <<"n","v","c","c"," ">>)

\* C2, as the claim states it: a run on a project directory with no qualifying source file
\* gets 0 entries from the first pass, creates placeholder.cu in the placeholder directory,
\* gets exactly 1 entry from the second pass, for placeholder.cu and made with nvcc, and
\* leaves that entry in compile_commands.json of the project root.
C2_AsStated ==
    (pc = "exited" /\ RootWasDir /\ NoQualifyingSource) =>
        /\ Len(passes) = 2
        /\ passes[1].count = 0
        /\ passes[2].count = 1
        /\ CU_NAME \in tree[PlaceholderAbs] /\ CU_NAME \notin call.tree[PlaceholderAbs]
        /\ OnePlaceholderEntry

\* the placeholder directory is not there yet, or holds placeholder.cu and nothing else
PlaceholderFresh == call.kind[PlaceholderAbs] = "absent"
PlaceholderKept ==
    /\ call.kind[PlaceholderAbs] = "dir"
    /\ call.tree[PlaceholderAbs] = {CU_NAME}
    /\ ~call.ccjson[PlaceholderAbs].exists

\* C2, amended: as stated, provided that no ignore pattern matches "placeholder.cu", that
\* ".cu" is not an extra C/C++ suffix, and that the placeholder directory does not exist
\* when the run begins, or holds placeholder.cu and nothing else; in the latter case no
\* file is created.
C2_Placeholder ==
    (pc = "exited" /\ RootWasDir /\ NoQualifyingSource
        /\ (PlaceholderFresh \/ PlaceholderKept)
        /\ ~ArgsIgnore(CU_NAME) /\ ~In(<<".","c","u">>, args.extra_cpp_suffixes)) =>
        /\ Done
        /\ Len(passes) = 2
        /\ passes[1].count = 0
        /\ passes[2].count = 1
        /\ kind[PlaceholderAbs] = "dir"
        /\ tree[PlaceholderAbs] = {CU_NAME}
        /\ OnePlaceholderEntry
        /\ ccjson[RootAbs].entries[1].directory = PlaceholderAbs

\* a run that created the placeholder file and ended with its entry, a source file of the
\* project being ignored
C2_Witness ==
    /\ Done
    /\ PlaceholderFresh
    /\ Len(passes) = 2
    /\ passes[2].count = 1
    /\ OnePlaceholderEntry
    /\ \E f \in call.tree[RootAbs] : ArgsIgnore(f) /\ ArgsCudaSuffix(f)

\* the root of the pass about to be made
PassRoot == IF pc = "pass1" THEN args.root ELSE args.placeholder_dir

\* C9: a call of generate_compile_commands on a root that is no existing directory raises
\* the invalid-argument error, which ends the run; it makes no entry and writes no file;
\* and a run whose first pass failed so has left the filesystem, the placeholder directory
\* included, as it was.
C9_InvalidRoot ==
    /\ [][(pc \in {"pass1", "pass2"} /\ ~IsDir(AbsPath(PassRoot))) =>
             /\ pc' = "exited"
             /\ exit_status' = 1
             /\ Len(passes') = Len(passes) + 1
             /\ passes'[Len(passes')].raised = "ValueError"
             /\ passes'[Len(passes')].count = 0
             /\ UNCHANGED <<kind, tree, ccjson, history>>]_vars
    /\ [](Len(passes) = 1 /\ passes[1].raised # "" =>
             /\ pc = "exited"
             /\ exit_status = 1
             /\ kind = call.kind /\ tree = call.tree /\ ccjson = call.ccjson)

\* a run that ended in the error of its first pass, the root being a regular file
C9_Witness ==
    /\ pc = "exited"
    /\ Len(passes) = 1
    /\ passes[1].raised = "ValueError"
    /\ kind[RootAbs] = "file"
    /\ kind[PlaceholderAbs] = "absent"

(***************************************************************************)
(* Claims about main (Spec).                                               *)
(***************************************************************************)
Given(a, names) == \E k \in 1..Len(a) : a[k] \in names
ReuseGiven(a) == Given(a, {<<"-","r","s">>, <<"-","-","r","e","u","s","e">>})
ListGiven(a) == Given(a, {<<"-","l","h">>, <<"-","-","l","i","s","t","-","h","i","s","t","o","r","y">>})
TorchGiven(a) == Given(a, {<<"-","r","t">>, <<"-","-","r","e","q","u","i","r","e","-","t","o","r","c","h">>})
NoInheritGiven(a) == Given(a, {<<"-","n","c","i">>, <<"-","-","n","o","-","c","u","d","a","-","i","n","h","e","r","i","t","-","c","p","p">>})
\* --cutlass-root is on the command line; and it is there with a value that is not empty
CutlassGiven(a) ==
    \E k \in 1..Len(a) :
        a[k] \in {<<"-","c","r">>, <<"-","-","c","u","t","l","a","s","s","-","r","o","o","t">>} \/ StartsWith(a[k], <<"-","-","c","u","t","l","a","s","s","-","r","o","o","t","=">>)
CutlassNamed(a) ==
    \E k \in 1..Len(a) :
        \/ a[k] \in {<<"-","c","r">>, <<"-","-","c","u","t","l","a","s","s","-","r","o","o","t">>} /\ k < Len(a) /\ a[k + 1] # <<>>
        \/ StartsWith(a[k], <<"-","-","c","u","t","l","a","s","s","-","r","o","o","t","=">>) /\ Len(a[k]) > Len(<<"-","-","c","u","t","l","a","s","s","-","r","o","o","t","=">>)

\* the top-level process has ended
Ended == pc = "exited" /\ ~parent.waiting

NothingDone ==
    /\ passes = <<>>
    /\ kind = call.kind /\ tree = call.tree /\ ccjson = call.ccjson
    /\ history = call.history

\* C8, as the claim states it: a run with --reuse, the history having no entry for the
\* project root, ends with status 1, having made no pass, written no compile_commands.json
\* and left the history as it was.
C8_AsStated ==
    (Ended /\ ReuseGiven(argv) /\ Stored(call.history, args.root) = None) =>
        exit_status = 1 /\ NothingDone

\* C8, amended: as stated, for a run with --reuse and without --list-history; with
\* --list-history the history is listed and the status is 0.
C8_ReuseMissing ==
    /\ (Ended /\ ReuseGiven(argv) /\ ~ListGiven(argv) /\ Stored(call.history, args.root) = None)
          => exit_status = 1 /\ NothingDone
    /\ (Ended /\ ListGiven(argv)) => exit_status = 0 /\ NothingDone

\* a run with --reuse that ended with status 1, the history file being there with the
\* entry of another project
C8_Witness ==
    /\ Ended
    /\ ReuseGiven(argv) /\ ~ListGiven(argv)
    /\ call.history.exists
    /\ Stored(call.history, args.root) = None
    /\ exit_status = 1

\* every nvcc entry of compile_commands.json of the project root starts its argument list
\* with the C/C++ argument list
NvccEntriesInherit ==
    \A i \in 1..Len(ccjson[RootAbs].entries) :
        Compiler(ccjson[RootAbs].entries[i].command) = NVCC =>
            IsPrefix(cpp_args, ArgumentList(ccjson[RootAbs].entries[i].command))

\* the last pass was made by the process that is in the state, and wrote its output
LastPassWritten ==
    /\ passes # <<>>
    /\ passes[Len(passes)].argv = argv
    /\ passes[Len(passes)].raised = ""

====
